---- MODULE Spec2Model ----
(***************************************************************************)
(* Model of the iterlower crate (src/src/lib.rs): the iterator adapter     *)
(* Lowercase<I>, its constructor IterLowercase::to_lowercase and its one   *)
(* operation Iterator::next.  Characters are represented by mnemonic       *)
(* strings; the Unicode property tables (Cased, Case_Ignorable) and the    *)
(* per-character lowercase mapping are given for a small alphabet holding  *)
(* one representative of every class the code distinguishes.               *)
(***************************************************************************)
EXTENDS Integers, Sequences, FiniteSets, TLC

\* ---------------------------------------------------------------- bounds
MaxLen == 4      \* longest input of a delegate that ends
MaxPrefix == 2   \* longest prefix an endless delegate yields before its repeating tail
MaxCycle == 1    \* longest repeating tail of an endless delegate
MaxOut == 6      \* number of outputs a consumer takes from an endless delegate

\* ------------------------------------------------------------ characters
CapitalSigma == "U+03A3"       \* 'Σ'
SmallSigma == "U+03C3"         \* 'σ'
FinalSigma == "U+03C2"         \* 'ς'
CapitalI == "U+0049"           \* 'I'
SmallI == "U+0069"             \* 'i'
DotlessI == "U+0131"           \* 'ı'
CapitalIDot == "U+0130"        \* 'İ', lowercases to 'i' followed by U+0307
CombiningDot == "U+0307"       \* combining dot above
CombiningAcute == "U+0301"     \* combining acute accent
CapitalB == "U+0042"           \* 'B'
SmallB == "U+0062"             \* 'b'
Space == "U+0020"              \* ' ': neither Cased nor Case_Ignorable
Pig == "U+732A"                \* the ideograph of the tests: neither Cased nor Case_Ignorable
ModifierH == "U+02B0"          \* modifier letter small h: Cased and Case_Ignorable

\* Option<char>::None, as returned by next() and held by sigma_trail
None == "None"
\* value of ret before the first call of next()
NotCalled == "NotCalled"

\* the characters a delegate may yield: the characters of the tests ('-' and
\* 'Δ' excepted, which next() treats as it does ' ' and 'B') and one more of
\* every class next() tells apart
InChars ==
  {CapitalSigma, CapitalI, CapitalIDot, CapitalB, CombiningAcute, Space, Pig, ModifierH}

\* the characters an endless delegate may repeat
CycleChars == {CapitalSigma, CombiningAcute}

\* ------------------------------------------------------- property oracle
\* icu_properties::props::Cased
Cased(c) ==
  c \in {CapitalSigma, SmallSigma, FinalSigma, CapitalI, SmallI, DotlessI,
         CapitalIDot, CapitalB, SmallB, ModifierH}

\* icu_properties::props::CaseIgnorable
CaseIgnorable(c) == c \in {CombiningDot, CombiningAcute, ModifierH}

\* char::to_lowercase: the context-free full lowercase mapping
ToLowercase(c) ==
  CASE c = CapitalSigma -> <<SmallSigma>>
    [] c = CapitalI -> <<SmallI>>
    [] c = CapitalIDot -> <<SmallI, CombiningDot>>
    [] c = CapitalB -> <<SmallB>>
    [] OTHER -> <<c>>

\* ----------------------------------------------------------------- state
VARIABLES
  input,                           \* delegate: the finite prefix it yields
  cycle,                           \* delegate: the tail it repeats for ever (<<>>: it ends)
  pos,                             \* delegate: number of characters taken so far
  sigma_trailing_case_ignorables,  \* VecDeque<char>
  sigma_trail,                     \* Option<char>
  lower,                           \* ToLowercase: the code points it has yet to yield
  prev_cased,
  tr_az,
  out,                             \* history: the Some(_) values returned so far
  ret,                             \* history: what the last call of next() returned
  cur,                             \* history: the character c the last call classified
  calls,                           \* history: delegate.next() calls made by the last call
  hung                             \* the last call of next() never returns

vars ==
  <<input, cycle, pos, sigma_trailing_case_ignorables, sigma_trail, lower,
    prev_cased, tr_az, out, ret, cur, calls, hung>>

RECURSIVE SeqsUpTo(_, _)
SeqsUpTo(S, n) ==
  IF n = 0 THEN {<<>>}
  ELSE LET shorter == SeqsUpTo(S, n - 1)
       IN shorter \cup {Append(s, x) : s \in {t \in shorter : Len(t) = n - 1}, x \in S}

\* ------------------------------------------------------------- delegate
\* what delegate.next() returns when p characters have been taken
DelegateNext(p) ==
  IF p < Len(input) THEN input[p + 1]
  ELSE IF cycle # <<>> THEN cycle[((p - Len(input)) % Len(cycle)) + 1]
  ELSE None

\* the delegate yields only Case_Ignorable characters from position p on, for ever
OnlyIgnorablesFrom(p) ==
  /\ cycle # <<>>
  /\ \A i \in 1..Len(cycle) : CaseIgnorable(cycle[i])
  /\ \A i \in (p + 1)..Len(input) : CaseIgnorable(input[i])

\* ------------------------------------------------------- IterLowercase
\* to_lowercase(self, tr_az): the adapter as constructed over a delegate
Init ==
  /\ input \in SeqsUpTo(InChars, MaxLen)
  /\ cycle \in SeqsUpTo(CycleChars, MaxCycle)
  /\ cycle # <<>> => Len(input) <= MaxPrefix
  /\ pos = 0
  /\ sigma_trailing_case_ignorables = <<>>
  /\ sigma_trail = None
  /\ lower = <<>>
  /\ prev_cased = FALSE
  /\ tr_az \in BOOLEAN
  /\ out = <<>>
  /\ ret = NotCalled
  /\ cur = None
  /\ calls = 0
  /\ hung = FALSE

\* ---------------------------------------------------- Lowercase::next
\* the consumer may call next(): the previous call returned, and a consumer
\* of an endless delegate stops after MaxOut outputs
CanCall == ~hung /\ (cycle = <<>> \/ Len(out) < MaxOut)

Emit(c) == /\ ret' = c
           /\ out' = IF c = None THEN out ELSE Append(out, c)

\* the character c of lines 44-51: sigma_trail if present, else delegate.next()
FromTrail == sigma_trail # None
NextChar == IF FromTrail THEN sigma_trail ELSE DelegateNext(pos)
PosAfterChar == IF FromTrail \/ DelegateNext(pos) = None THEN pos ELSE pos + 1
CallsForChar == IF FromTrail THEN 0 ELSE 1

\* line 45: sigma_trail once the character c has been obtained
TrailAfterTake_Kept == sigma_trail
TrailAfterTake == None

\* line 52: the Turkish/Azeri special case applies to c
IsTurkishI_Never(c) == FALSE
IsTurkishI(c) == tr_az /\ c = CapitalI

\* line 57: c is a capital sigma whose form depends on what follows
SigmaNeedsLookahead_Always(c) == c = CapitalSigma
SigmaNeedsLookahead(c) == c = CapitalSigma /\ prev_cased

\* lines 73-74: what self.lower still holds once its first code point is returned
LowerRest_Dropped(m) == <<>>
LowerRest_Unconsumed(m) == m
LowerRest(m) == Tail(m)

\* the loop of lines 58-70 without the test of line 65
RECURSIVE SigmaLoop_CasedUnchecked(_, _, _)
SigmaLoop_CasedUnchecked(p, q, n) ==
  LET t == DelegateNext(p) IN
  IF t = None
    THEN [pos |-> p, queue |-> q, trail |-> None, ret |-> FinalSigma, calls |-> n + 1]
  ELSE IF CaseIgnorable(t)
    THEN SigmaLoop_CasedUnchecked(p + 1, Append(q, t), n + 1)
  ELSE [pos |-> p + 1, queue |-> q, trail |-> t, ret |-> SmallSigma, calls |-> n + 1]

\* the loop of lines 58-70 without the push_back of line 61
RECURSIVE SigmaLoop_IgnorablesDropped(_, _, _)
SigmaLoop_IgnorablesDropped(p, q, n) ==
  LET t == DelegateNext(p) IN
  IF t = None
    THEN [pos |-> p, queue |-> q, trail |-> None, ret |-> FinalSigma, calls |-> n + 1]
  ELSE IF CaseIgnorable(t)
    THEN SigmaLoop_IgnorablesDropped(p + 1, q, n + 1)
  ELSE [pos |-> p + 1, queue |-> q, trail |-> t,
        ret |-> IF Cased(t) THEN SmallSigma ELSE FinalSigma, calls |-> n + 1]

\* the loop of lines 58-70 without the assignment of line 64
RECURSIVE SigmaLoop_TrailDiscarded(_, _, _)
SigmaLoop_TrailDiscarded(p, q, n) ==
  LET t == DelegateNext(p) IN
  IF t = None
    THEN [pos |-> p, queue |-> q, trail |-> None, ret |-> FinalSigma, calls |-> n + 1]
  ELSE IF CaseIgnorable(t)
    THEN SigmaLoop_TrailDiscarded(p + 1, Append(q, t), n + 1)
  ELSE [pos |-> p + 1, queue |-> q, trail |-> None,
        ret |-> IF Cased(t) THEN SmallSigma ELSE FinalSigma, calls |-> n + 1]

\* the loop of lines 58-70 with the None of the delegate passed on at line 59
RECURSIVE SigmaLoop_EndPropagated(_, _, _)
SigmaLoop_EndPropagated(p, q, n) ==
  LET t == DelegateNext(p) IN
  IF t = None
    THEN [pos |-> p, queue |-> q, trail |-> None, ret |-> None, calls |-> n + 1]
  ELSE IF CaseIgnorable(t)
    THEN SigmaLoop_EndPropagated(p + 1, Append(q, t), n + 1)
  ELSE [pos |-> p + 1, queue |-> q, trail |-> t,
        ret |-> IF Cased(t) THEN SmallSigma ELSE FinalSigma, calls |-> n + 1]

\* the loop of lines 58-70 taking one more character after the deciding one
RECURSIVE SigmaLoop_Overreads(_, _, _)
SigmaLoop_Overreads(p, q, n) ==
  LET t == DelegateNext(p) IN
  IF t = None
    THEN [pos |-> p, queue |-> q, trail |-> None, ret |-> FinalSigma, calls |-> n + 1]
  ELSE IF CaseIgnorable(t)
    THEN SigmaLoop_Overreads(p + 1, Append(q, t), n + 1)
  ELSE [pos |-> IF DelegateNext(p + 1) = None THEN p + 1 ELSE p + 2,
        queue |-> q, trail |-> t,
        ret |-> IF Cased(t) THEN SmallSigma ELSE FinalSigma, calls |-> n + 2]

\* the loop of lines 58-70 with push_front for the push_back of line 61
RECURSIVE SigmaLoop_Prepends(_, _, _)
SigmaLoop_Prepends(p, q, n) ==
  LET t == DelegateNext(p) IN
  IF t = None
    THEN [pos |-> p, queue |-> q, trail |-> None, ret |-> FinalSigma, calls |-> n + 1]
  ELSE IF CaseIgnorable(t)
    THEN SigmaLoop_Prepends(p + 1, <<t>> \o q, n + 1)
  ELSE [pos |-> p + 1, queue |-> q, trail |-> t,
        ret |-> IF Cased(t) THEN SmallSigma ELSE FinalSigma, calls |-> n + 1]

\* the loop of lines 58-70, started with p characters taken and queue q,
\* having made n calls of delegate.next()
RECURSIVE SigmaLoop(_, _, _)
SigmaLoop(p, q, n) ==
  LET t == DelegateNext(p) IN
  IF t = None
    THEN [pos |-> p, queue |-> q, trail |-> None, ret |-> FinalSigma, calls |-> n + 1]
  ELSE IF CaseIgnorable(t)
    THEN SigmaLoop(p + 1, Append(q, t), n + 1)
  ELSE [pos |-> p + 1, queue |-> q, trail |-> t,
        ret |-> IF Cased(t) THEN SmallSigma ELSE FinalSigma, calls |-> n + 1]

\* lines 38-40: the pending lowercase mapping yields its next code point
NextFromLower ==
  /\ CanCall
  /\ lower # <<>>
  /\ lower' = Tail(lower)
  /\ Emit(Head(lower))
  /\ cur' = None
  /\ calls' = 0
  /\ UNCHANGED <<input, cycle, pos, sigma_trailing_case_ignorables, sigma_trail,
                 prev_cased, tr_az, hung>>

\* lines 41-43: a buffered case-ignorable character is replayed
NextFromIgnorables ==
  /\ CanCall
  /\ lower = <<>>
  /\ sigma_trailing_case_ignorables # <<>>
  /\ sigma_trailing_case_ignorables' = Tail(sigma_trailing_case_ignorables)
  /\ Emit(Head(sigma_trailing_case_ignorables))
  /\ cur' = None
  /\ calls' = 0
  /\ UNCHANGED <<input, cycle, pos, sigma_trail, lower, prev_cased, tr_az, hung>>

\* lines 44-51: no character is left, next() returns None
NextEnd ==
  /\ CanCall
  /\ lower = <<>>
  /\ sigma_trailing_case_ignorables = <<>>
  /\ NextChar = None
  /\ Emit(None)
  /\ cur' = None
  /\ calls' = 1
  /\ UNCHANGED <<input, cycle, pos, sigma_trailing_case_ignorables, sigma_trail,
                 lower, prev_cased, tr_az, hung>>

\* lines 52-55 with the flag cleared once it has been applied
NextTurkishI_ClearsFlag ==
  /\ CanCall
  /\ lower = <<>>
  /\ sigma_trailing_case_ignorables = <<>>
  /\ NextChar # None
  /\ IsTurkishI(NextChar)
  /\ sigma_trail' = TrailAfterTake
  /\ pos' = PosAfterChar
  /\ prev_cased' = TRUE
  /\ tr_az' = FALSE
  /\ Emit(DotlessI)
  /\ cur' = NextChar
  /\ calls' = CallsForChar
  /\ UNCHANGED <<input, cycle, sigma_trailing_case_ignorables, lower, hung>>

\* lines 52-55: Turkish/Azeri 'I'
NextTurkishI ==
  /\ CanCall
  /\ lower = <<>>
  /\ sigma_trailing_case_ignorables = <<>>
  /\ NextChar # None
  /\ IsTurkishI(NextChar)
  /\ sigma_trail' = TrailAfterTake
  /\ pos' = PosAfterChar
  /\ prev_cased' = TRUE
  /\ Emit(DotlessI)
  /\ cur' = NextChar
  /\ calls' = CallsForChar
  /\ UNCHANGED <<input, cycle, sigma_trailing_case_ignorables, lower, tr_az, hung>>

\* lines 44-71 reached without the queue having been drained by lines 41-43
NextSigma_QueueNotDrained ==
  /\ CanCall
  /\ lower = <<>>
  /\ NextChar # None
  /\ ~IsTurkishI(NextChar)
  /\ Cased(NextChar)
  /\ SigmaNeedsLookahead(NextChar)
  /\ ~OnlyIgnorablesFrom(PosAfterChar)
  /\ LET r == SigmaLoop(PosAfterChar, sigma_trailing_case_ignorables, CallsForChar)
     IN /\ pos' = r.pos
        /\ sigma_trailing_case_ignorables' = r.queue
        /\ sigma_trail' = r.trail
        /\ Emit(r.ret)
        /\ calls' = r.calls
  /\ cur' = NextChar
  /\ UNCHANGED <<input, cycle, lower, prev_cased, tr_az, hung>>

\* lines 56-71: capital sigma after a cased character, the lookahead loop exits
NextSigma ==
  /\ CanCall
  /\ lower = <<>>
  /\ sigma_trailing_case_ignorables = <<>>
  /\ NextChar # None
  /\ ~IsTurkishI(NextChar)
  /\ Cased(NextChar)
  /\ SigmaNeedsLookahead(NextChar)
  /\ ~OnlyIgnorablesFrom(PosAfterChar)
  /\ LET r == SigmaLoop(PosAfterChar, sigma_trailing_case_ignorables, CallsForChar)
     IN /\ pos' = r.pos
        /\ sigma_trailing_case_ignorables' = r.queue
        /\ sigma_trail' = r.trail
        /\ Emit(r.ret)
        /\ calls' = r.calls
  /\ cur' = NextChar
  /\ UNCHANGED <<input, cycle, lower, prev_cased, tr_az, hung>>

\* lines 58-63: the delegate yields case-ignorable characters for ever, so the
\* lookahead loop never exits and next() never returns
NextSigmaDiverges ==
  /\ CanCall
  /\ lower = <<>>
  /\ sigma_trailing_case_ignorables = <<>>
  /\ NextChar # None
  /\ ~IsTurkishI(NextChar)
  /\ Cased(NextChar)
  /\ SigmaNeedsLookahead(NextChar)
  /\ OnlyIgnorablesFrom(PosAfterChar)
  /\ hung' = TRUE
  /\ sigma_trail' = TrailAfterTake
  /\ pos' = PosAfterChar
  /\ cur' = NextChar
  /\ UNCHANGED <<input, cycle, sigma_trailing_case_ignorables, lower, prev_cased,
                 tr_az, out, ret, calls>>

\* lines 72-74: any other cased character
NextCased ==
  /\ CanCall
  /\ lower = <<>>
  /\ sigma_trailing_case_ignorables = <<>>
  /\ NextChar # None
  /\ ~IsTurkishI(NextChar)
  /\ Cased(NextChar)
  /\ ~SigmaNeedsLookahead(NextChar)
  /\ sigma_trail' = TrailAfterTake
  /\ pos' = PosAfterChar
  /\ prev_cased' = TRUE
  /\ LET m == ToLowercase(NextChar)
     IN IF m = <<>>
          THEN lower' = <<>> /\ Emit(None)
          ELSE lower' = LowerRest(m) /\ Emit(Head(m))
  /\ cur' = NextChar
  /\ calls' = CallsForChar
  /\ UNCHANGED <<input, cycle, sigma_trailing_case_ignorables, tr_az, hung>>

\* lines 76-79: a character that is not cased
NextUncased ==
  /\ CanCall
  /\ lower = <<>>
  /\ sigma_trailing_case_ignorables = <<>>
  /\ NextChar # None
  /\ ~IsTurkishI(NextChar)
  /\ ~Cased(NextChar)
  /\ sigma_trail' = TrailAfterTake
  /\ pos' = PosAfterChar
  /\ prev_cased' = IF prev_cased /\ ~CaseIgnorable(NextChar) THEN FALSE ELSE prev_cased
  /\ Emit(NextChar)
  /\ cur' = NextChar
  /\ calls' = CallsForChar
  /\ UNCHANGED <<input, cycle, sigma_trailing_case_ignorables, lower, tr_az, hung>>

Next ==
  \/ NextFromLower
  \/ NextFromIgnorables
  \/ NextEnd
  \/ NextTurkishI
  \/ NextSigma
  \/ NextSigmaDiverges
  \/ NextCased
  \/ NextUncased

Spec == Init /\ [][Next]_vars

\* the consumer keeps calling next() (collect, for loops)
FairSpec == Spec /\ WF_vars(Next)

\* collect(): next() has returned None over a delegate that ends
Collected == cycle = <<>> /\ ret = None

\* ------------------------------------------------ reference lowercasing
\* str::to_lowercase, the right-hand side of tests::check: the nearest
\* character before / after position i that is not Case_Ignorable is Cased
PrecededByCased(s, i) ==
  \E j \in 1..(i - 1) :
    /\ ~CaseIgnorable(s[j]) /\ Cased(s[j])
    /\ \A k \in (j + 1)..(i - 1) : CaseIgnorable(s[k])

FollowedByCased(s, i) ==
  \E j \in (i + 1)..Len(s) :
    /\ ~CaseIgnorable(s[j]) /\ Cased(s[j])
    /\ \A k \in (i + 1)..(j - 1) : CaseIgnorable(s[k])

RefChar(s, i) ==
  IF s[i] = CapitalSigma
    THEN IF PrecededByCased(s, i) /\ ~FollowedByCased(s, i)
           THEN <<FinalSigma>> ELSE <<SmallSigma>>
    ELSE ToLowercase(s[i])

RECURSIVE RefLowerFrom(_, _)
RefLowerFrom(s, i) ==
  IF i > Len(s) THEN <<>> ELSE RefChar(s, i) \o RefLowerFrom(s, i + 1)

RefLower(s) == RefLowerFrom(s, 1)

\* ---------------------------------------------------------------- claims

\* C1: with tr_az = false, the outputs collected from a finite input equal the
\* reference whole-string lowercasing of that input, capital sigma becoming
\* final sigma exactly when the nearest non-ignorable character before it is
\* Cased and the nearest non-ignorable character after it is absent or not
\* Cased; for inputs over every character class.
C1_EqualsReference == (Collected /\ ~tr_az) => out = RefLower(input)

C1_Failing ==
  /\ Collected /\ ~tr_az
  /\ input = <<ModifierH, CapitalSigma>>
  /\ out = <<ModifierH, FinalSigma>>
  /\ RefLower(input) = <<ModifierH, SmallSigma>>

\* the in-order concatenation of the lowercase mapping of every character
RECURSIVE MapLower(_)
MapLower(s) == IF s = <<>> THEN <<>> ELSE ToLowercase(Head(s)) \o MapLower(Tail(s))

NoSigma(s) == \A i \in 1..Len(s) : s[i] # CapitalSigma

\* C2: with tr_az = false, the outputs collected from a finite input without
\* capital sigma are the concatenation, in order, of the lowercase mapping of
\* each input character.
C2_NoSigmaMapsEachChar ==
  (Collected /\ ~tr_az /\ NoSigma(input)) => out = MapLower(input)

C2_Witness ==
  /\ Collected /\ ~tr_az /\ NoSigma(input)
  /\ \E i \in 1..Len(input) : input[i] = CapitalIDot
  /\ \E i \in 1..Len(input) : input[i] = ModifierH
  /\ \E i \in 1..Len(input) : input[i] = Pig
  /\ Len(out) > Len(input)

\* C3 (as stated): with tr_az = false the input "Σ" gives "ς".
C3_LoneSigmaIsFinal ==
  (Collected /\ ~tr_az /\ input = <<CapitalSigma>>) => out = <<FinalSigma>>

\* C3 (amended): with tr_az = false the input "Σ" gives "σ", because a capital
\* sigma that no cased character precedes is never final; the end of input
\* counts as an uncased boundary for a sigma that follows a cased character,
\* so "BΣ" gives "bς".
C3_LoneSigmaIsSmall ==
  /\ (Collected /\ ~tr_az /\ input = <<CapitalSigma>>) => out = <<SmallSigma>>
  /\ (Collected /\ ~tr_az /\ input = <<CapitalB, CapitalSigma>>)
       => out = <<SmallB, FinalSigma>>

C3_Witness == Collected /\ ~tr_az /\ input = <<CapitalSigma>> /\ Len(out) = 1

\* a call of next() that gets as far as line 52 with a character c
Classifies(c) ==
  /\ CanCall
  /\ lower = <<>>
  /\ sigma_trailing_case_ignorables = <<>>
  /\ NextChar = c

\* the number of characters the delegate yields from position p on before
\* one that is not Case_Ignorable, or before it ends
IgnorableRun(p) ==
  LET D == {d \in 0..(Len(input) + Len(cycle)) : ~CaseIgnorable(DelegateNext(p + d))}
  IN CHOOSE d \in D : \A e \in D : d <= e

\* C4: a capital sigma processed while prev_cased is true becomes 'σ' if the
\* first character after it that is not Case_Ignorable is Cased, and 'ς' if
\* that character is not Cased or the source ends first; so, with tr_az =
\* false, "ΣΣ" gives "σς", "ΣΣ " gives "σς ", "ΣΣ猪" gives "σς猪" and "ΣΣB"
\* gives "σσb".
C4_SigmaStep ==
  (Classifies(CapitalSigma) /\ prev_cased /\ ~hung')
    => LET t == DelegateNext(PosAfterChar + IgnorableRun(PosAfterChar))
       IN ret' = IF t # None /\ Cased(t) THEN SmallSigma ELSE FinalSigma

C4_Examples ==
  (Collected /\ ~tr_az) =>
    /\ input = <<CapitalSigma, CapitalSigma>> => out = <<SmallSigma, FinalSigma>>
    /\ input = <<CapitalSigma, CapitalSigma, Space>>
         => out = <<SmallSigma, FinalSigma, Space>>
    /\ input = <<CapitalSigma, CapitalSigma, Pig>>
         => out = <<SmallSigma, FinalSigma, Pig>>
    /\ input = <<CapitalSigma, CapitalSigma, CapitalB>>
         => out = <<SmallSigma, SmallSigma, SmallB>>

C4_SigmaLookahead == [][C4_SigmaStep]_vars /\ []C4_Examples

C4_Witness ==
  /\ cur = CapitalSigma /\ ret = FinalSigma
  /\ sigma_trail = Pig
  /\ sigma_trailing_case_ignorables # <<>>

Count(s, c) == Cardinality({i \in 1..Len(s) : s[i] = c})

\* C5: with tr_az = true every input 'I', whether pulled from the delegate or
\* taken from sigma_trail, yields the single output 'ı', leaves the pending
\* mapping empty and sets prev_cased, so that "ΣIΣ" gives "σıς"; with tr_az =
\* false 'I' takes the general cased mapping.
C5_IStep ==
  Classifies(CapitalI) =>
    /\ prev_cased'
    /\ sigma_trail' = None
    /\ IF tr_az
         THEN ret' = DotlessI /\ out' = Append(out, DotlessI) /\ lower' = <<>>
         ELSE ret' = Head(ToLowercase(CapitalI)) /\ lower' = Tail(ToLowercase(CapitalI))

C5_Collected ==
  (Collected /\ tr_az) =>
    /\ Count(out, DotlessI) = Count(input, CapitalI)
    /\ input = <<CapitalSigma, CapitalI, CapitalSigma>>
         => out = <<SmallSigma, DotlessI, FinalSigma>>
    /\ input = <<CapitalB, CapitalSigma, CapitalI>>
         => out = <<SmallB, SmallSigma, DotlessI>>

C5_TurkishI == [][C5_IStep]_vars /\ []C5_Collected

C5_Witness ==
  /\ tr_az /\ cur = CapitalI /\ calls = 0
  /\ ret = DotlessI /\ prev_cased
  /\ Len(out) >= 2 /\ out[Len(out) - 1] = SmallSigma

\* the longest lowercase mapping of a character of the alphabet
MaxExpansion ==
  CHOOSE n \in {Len(ToLowercase(c)) : c \in InChars} :
    \A c \in InChars : Len(ToLowercase(c)) <= n

\* b may be the output block of input character c: a character that is not
\* Cased is its own block; a Cased one has, if exact, the block next() can
\* give it, and otherwise any block of 1..MaxExpansion code points
BlockOK(c, b, exact) ==
  IF ~Cased(c) THEN b = <<c>>
  ELSE IF ~exact THEN Len(b) \in 1..MaxExpansion
  ELSE IF c = CapitalSigma THEN b \in {<<SmallSigma>>, <<FinalSigma>>}
  ELSE IF tr_az /\ c = CapitalI THEN b = <<DotlessI>>
  ELSE b = ToLowercase(c)

\* o is the concatenation of one block per character of s, in order
RECURSIVE Decomposes(_, _, _)
Decomposes(o, s, exact) ==
  IF s = <<>> THEN o = <<>>
  ELSE \E k \in 1..MaxExpansion :
         /\ k <= Len(o)
         /\ BlockOK(Head(s), SubSeq(o, 1, k), exact)
         /\ Decomposes(SubSeq(o, k + 1, Len(o)), Tail(s), exact)

AllUncased(s) == \A i \in 1..Len(s) : ~Cased(s[i])

\* C6: every input character that is not Cased is emitted once and unchanged,
\* in either mode and in any context (the collected output splits into one
\* block per input character in which such a character is its own block); an
\* input of characters that are not Cased is returned unchanged.
C6_UncasedUnchanged ==
  Collected =>
    /\ Decomposes(out, input, FALSE)
    /\ AllUncased(input) => out = input

C6_Witness ==
  /\ Collected
  /\ out = <<SmallB, FinalSigma, CombiningAcute, Pig>>

\* the first k characters the delegate yields
Taken(k) == [i \in 1..k |-> DelegateNext(i - 1)]

\* C7: no character pulled from the delegate is dropped, duplicated or
\* reordered: what has been returned, followed by what the buffers hold, is
\* the concatenation in input order of one non-empty block per character
\* pulled, each block that character's own image; the character that decided
\* a sigma's form waits in sigma_trail and gets its block, a multi-code-point
\* mapping included, after the sigma's and the skipped characters' blocks.
C7_NothingLost ==
  ~hung =>
    /\ sigma_trail # None => pos > 0 /\ sigma_trail = DelegateNext(pos - 1)
    /\ Decomposes(out \o lower \o sigma_trailing_case_ignorables,
                  Taken(IF sigma_trail = None THEN pos ELSE pos - 1), TRUE)
    /\ Collected => pos = Len(input) /\ sigma_trail = None

C7_Witness ==
  /\ Collected
  /\ out = <<SmallB, SmallSigma, CombiningAcute, SmallI, CombiningDot>>

BuffersEmpty ==
  /\ lower = <<>>
  /\ sigma_trailing_case_ignorables = <<>>
  /\ sigma_trail = None

\* C8: next() returns None only when called with lower empty, the queue of
\* case-ignorable characters empty, sigma_trail absent and the delegate
\* exhausted; when the lookahead of a sigma finds the delegate exhausted the
\* call still returns 'ς' and keeps the skipped characters for the next calls.
C8_EndStep ==
  ret' = None => BuffersEmpty /\ DelegateNext(pos) = None /\ cycle = <<>>

C8_ExhaustedLookaheadStep ==
  LET p == PosAfterChar
      run == IgnorableRun(p)
  IN (Classifies(CapitalSigma) /\ prev_cased /\ ~hung' /\ DelegateNext(p + run) = None)
       => /\ ret' = FinalSigma
          /\ out' = Append(out, FinalSigma)
          /\ sigma_trailing_case_ignorables' = [i \in 1..run |-> DelegateNext(p + i - 1)]

C8_EndOnlyWhenDrained ==
  /\ [][C8_EndStep /\ C8_ExhaustedLookaheadStep]_vars
  /\ [](ret = None => BuffersEmpty /\ pos = Len(input) /\ cycle = <<>>)

C8_Witness ==
  /\ Collected
  /\ Len(out) >= 3
  /\ out[Len(out) - 1] = FinalSigma
  /\ out[Len(out)] = CombiningAcute

\* C9: the produced sequence is finite iff the delegate is: over a delegate
\* that ends every call of next() returns, the number of outputs is at most
\* MaxExpansion times the input length and next() eventually returns None;
\* over a delegate that never ends next() never returns None.
C9_FiniteIffFinite ==
  /\ (cycle = <<>>) => <>(ret = None)
  /\ [](cycle = <<>> => ~hung /\ Len(out) <= MaxExpansion * Len(input))
  /\ [](cycle # <<>> => ret # None)

C9_Witness ==
  /\ Collected
  /\ Len(input) >= 2
  /\ Len(out) = MaxExpansion * Len(input)

\* C10: a call of next() made while lower or the queue of case-ignorable
\* characters is non-empty, or while sigma_trail holds a character that does
\* not start a sigma lookahead, asks the delegate for nothing; any other call
\* asks it for exactly one character, unless the character processed is a
\* capital sigma with prev_cased true: then it also takes the run of
\* Case_Ignorable characters that follows and the first character after the
\* run (or finds the delegate exhausted), and nothing beyond.
C10_Step ==
  (CanCall /\ ~hung') =>
    IF lower # <<>> \/ sigma_trailing_case_ignorables # <<>>
      THEN calls' = 0 /\ pos' = pos
    ELSE IF NextChar = CapitalSigma /\ prev_cased
      THEN LET p == pos + (IF sigma_trail = None THEN 1 ELSE 0)
               run == IgnorableRun(p)
               t == DelegateNext(p + run)
           IN /\ calls' = (IF sigma_trail = None THEN 1 ELSE 0) + run + 1
              /\ pos' = p + run + (IF t = None THEN 0 ELSE 1)
              /\ sigma_trail' = t
              /\ Len(sigma_trailing_case_ignorables') = run
    ELSE IF sigma_trail # None
      THEN calls' = 0 /\ pos' = pos
    ELSE /\ calls' = 1
         /\ pos' = pos + (IF DelegateNext(pos) = None THEN 0 ELSE 1)

C10_PerPullLaziness == [][C10_Step]_vars

C10_Witness ==
  /\ cur = CapitalSigma
  /\ calls = 3
  /\ Len(sigma_trailing_case_ignorables) = 1
  /\ sigma_trail = Pig
  /\ pos = 4
  /\ cycle = <<>>

Held == IF sigma_trail = None THEN 0 ELSE 1

\* C11: after the calls that returned N outputs, the number of characters
\* taken from the delegate is at most N plus the case-ignorable characters
\* the last sigma lookahead buffered (those not yet replayed) plus one for the
\* deciding character it holds; the rest of the stream is left untouched.
C11_CumulativeLaziness ==
  ~hung => pos <= Len(out) + Len(sigma_trailing_case_ignorables) + Held

C11_Witness ==
  /\ cycle # <<>>
  /\ Len(out) = MaxOut
  /\ sigma_trail = CapitalSigma
  /\ pos = Len(out) + 1

\* C12 (as stated): between calls at most one of lower, the queue of
\* case-ignorable characters and sigma_trail holds anything.
C12_AtMostOneBuffer ==
  Cardinality({b \in {"lower", "queue", "trail"} :
                 \/ b = "lower" /\ lower # <<>>
                 \/ b = "queue" /\ sigma_trailing_case_ignorables # <<>>
                 \/ b = "trail" /\ sigma_trail # None}) <= 1

\* C12 (amended): between calls lower is non-empty only while the queue of
\* case-ignorable characters is empty and sigma_trail is absent; the queue and
\* sigma_trail may hold content together, as they do right after a sigma
\* lookahead that skipped characters and found a deciding one.
C12_LowerExcludesOthers ==
  lower # <<>> => sigma_trailing_case_ignorables = <<>> /\ sigma_trail = None

C12_Witness ==
  /\ lower # <<>>
  /\ cur = CapitalIDot /\ calls = 0
  /\ Len(out) >= 3 /\ out[Len(out) - 1] = CombiningAcute

\* C13 (as stated): sigma_trail is present only in the state a sigma
\* resolution has just produced, the very next call consuming it.
C13_TrailOnlyRightAfterSigma == sigma_trail # None => cur = CapitalSigma

\* C13 (amended): sigma_trail is set only by a sigma resolution; the calls
\* that replay the buffered case-ignorable characters leave it in place, and
\* the first call made with the queue empty takes it out and classifies it
\* (the very next call only when the lookahead buffered nothing).
C13_Step ==
  /\ (sigma_trail' # None /\ sigma_trail' # sigma_trail) =>
        /\ Classifies(CapitalSigma) /\ prev_cased
        /\ ret' \in {SmallSigma, FinalSigma}
        /\ pos' > pos /\ sigma_trail' = DelegateNext(pos' - 1)
  /\ (sigma_trail # None /\ sigma_trailing_case_ignorables # <<>>) =>
        /\ sigma_trail' = sigma_trail
        /\ sigma_trailing_case_ignorables' = Tail(sigma_trailing_case_ignorables)
        /\ cur' = None
  /\ (sigma_trail # None /\ sigma_trailing_case_ignorables = <<>>) =>
        /\ cur' = sigma_trail
        /\ \/ sigma_trail' = None
           \/ /\ sigma_trail = CapitalSigma /\ prev_cased
              /\ pos' > pos /\ sigma_trail' = DelegateNext(pos' - 1)

C13_TrailConsumedAfterReplay ==
  [][C13_Step]_vars /\ [](sigma_trail # None => lower = <<>> /\ pos > 0)

C13_Witness ==
  /\ sigma_trail # None
  /\ sigma_trailing_case_ignorables = <<>>
  /\ cur = None
  /\ ret = CombiningAcute

\* C14: processing a Case_Ignorable character never changes prev_cased, be
\* it classified by the call, buffered by a lookahead or replayed from the
\* queue, and be it Cased as well or not; a character that is not
\* Case_Ignorable sets prev_cased, once, to whether it is Cased.
C14_Step ==
  /\ (CanCall /\ lower = <<>> /\ sigma_trailing_case_ignorables # <<>>)
       => prev_cased' = prev_cased
  /\ \A c \in InChars :
       Classifies(c) =>
         prev_cased' = IF CaseIgnorable(c) THEN prev_cased ELSE Cased(c)

C14_IgnorableKeepsContext == [][C14_Step]_vars

C14_Failing ==
  /\ input = <<ModifierH>>
  /\ pos = 1 /\ cur = ModifierH
  /\ prev_cased

\* C15: a character that is neither Cased nor Case_Ignorable clears
\* prev_cased; a capital sigma processed while prev_cased is false (as it is
\* at the start of input) takes the general cased path: the call returns 'σ',
\* sets prev_cased and asks the delegate for nothing after the sigma itself,
\* whatever follows.
C15_Step ==
  /\ \A c \in InChars :
       (Classifies(c) /\ ~Cased(c) /\ ~CaseIgnorable(c)) =>
         ~prev_cased' /\ ret' = c
  /\ (Classifies(CapitalSigma) /\ ~prev_cased) =>
       /\ ret' = SmallSigma /\ out' = Append(out, SmallSigma)
       /\ prev_cased'
       /\ lower' = <<>>
       /\ sigma_trailing_case_ignorables' = <<>> /\ sigma_trail' = None
       /\ pos' = pos + (IF sigma_trail = None THEN 1 ELSE 0)
       /\ calls' = (IF sigma_trail = None THEN 1 ELSE 0)
       /\ ~hung'

C15_SigmaWithoutCasedContext ==
  /\ [][C15_Step]_vars
  /\ [](\A i \in 1..Len(out) :
          (i = 1 \/ out[i - 1] \in {Space, Pig}) => out[i] # FinalSigma)

C15_Witness ==
  /\ out = <<SmallB, Space, SmallSigma>>
  /\ cur = CapitalSigma /\ calls = 1
  /\ pos = 3 /\ Len(input) = 4
  /\ input[4] = Pig

\* c takes the general cased path of lines 72-74
GeneralCased(c) ==
  /\ Cased(c)
  /\ ~(tr_az /\ c = CapitalI)
  /\ ~(c = CapitalSigma /\ prev_cased)

\* C16: the call that processes a Cased character whose lowercase mapping has
\* k > 1 code points returns the first, and the next k-1 calls return the
\* others in order, taking nothing from the delegate and leaving the queue of
\* case-ignorable characters, sigma_trail and prev_cased as they are; lower is
\* consulted before any other buffer and before the delegate.
C16_Step ==
  /\ \A c \in InChars :
       (Classifies(c) /\ GeneralCased(c) /\ Len(ToLowercase(c)) > 1) =>
         /\ ret' = ToLowercase(c)[1]
         /\ lower' = SubSeq(ToLowercase(c), 2, Len(ToLowercase(c)))
  /\ (CanCall /\ lower # <<>>) =>
       /\ ret' = Head(lower) /\ out' = Append(out, Head(lower))
       /\ lower' = Tail(lower)
       /\ pos' = pos /\ calls' = 0
       /\ UNCHANGED <<sigma_trailing_case_ignorables, sigma_trail, prev_cased>>

C16_MultiMappingDrained == [][C16_Step]_vars

C16_Witness ==
  /\ ret = CombiningDot /\ cur = None
  /\ lower = <<>>
  /\ Len(out) >= 2 /\ out[Len(out) - 1] = SmallI
  /\ cycle = <<>> /\ pos < Len(input)
  /\ prev_cased

\* C17: the Case_Ignorable characters a sigma lookahead consumes are returned
\* right after that sigma's output, in their original order and unchanged
\* (also those that are Cased), all of them before sigma_trail is taken or
\* the delegate is asked again.
C17_Step ==
  /\ (Classifies(CapitalSigma) /\ prev_cased /\ ~hung') =>
       LET p == PosAfterChar
           run == IgnorableRun(p)
       IN /\ sigma_trailing_case_ignorables' = [i \in 1..run |-> DelegateNext(p + i - 1)]
          /\ ret' \in {SmallSigma, FinalSigma} /\ out' = Append(out, ret')
          /\ lower' = <<>>
  /\ (CanCall /\ lower = <<>> /\ sigma_trailing_case_ignorables # <<>>) =>
       /\ ret' = Head(sigma_trailing_case_ignorables)
       /\ out' = Append(out, Head(sigma_trailing_case_ignorables))
       /\ sigma_trailing_case_ignorables' = Tail(sigma_trailing_case_ignorables)
       /\ sigma_trail' = sigma_trail
       /\ pos' = pos /\ calls' = 0

C17_IgnorablesReplayedInOrder ==
  /\ [][C17_Step]_vars
  /\ [](sigma_trailing_case_ignorables # <<>> => lower = <<>>)

C17_Witness ==
  /\ cur = None /\ ret = ModifierH
  /\ Len(out) >= 3
  /\ out[Len(out) - 2] = FinalSigma
  /\ out[Len(out) - 1] = CombiningAcute
  /\ sigma_trailing_case_ignorables = <<>>
  /\ input[1] = CapitalB

\* the call just made ran the lookahead loop: it classified a capital sigma
\* and asked the delegate for more than the sigma itself, or never returned
LookaheadRan ==
  /\ cur' = CapitalSigma
  /\ \/ hung'
     \/ calls' > (IF sigma_trail = None THEN 1 ELSE 0)

\* C19: a sigma lookahead starts only with lower and the queue of
\* case-ignorable characters empty and with sigma_trail empty or holding the
\* very sigma being resolved (which line 45 takes out first), so it never
\* overwrites a character still held and never appends to characters left
\* from an earlier sigma; sigma_trail holds at most one character.
C19_Step ==
  LookaheadRan =>
    /\ lower = <<>>
    /\ sigma_trailing_case_ignorables = <<>>
    /\ sigma_trail \in {None, CapitalSigma}
    /\ prev_cased
    /\ ~hung' =>
         /\ Len(sigma_trailing_case_ignorables') = IgnorableRun(PosAfterChar)
         /\ sigma_trail' = DelegateNext(PosAfterChar + IgnorableRun(PosAfterChar))

C19_LookaheadStartsEmpty ==
  /\ [][C19_Step]_vars
  /\ [](sigma_trail \in InChars \cup {None})

C19_Witness ==
  /\ cur = CapitalSigma /\ calls = 1
  /\ ret = SmallSigma
  /\ sigma_trail = CapitalSigma
  /\ cycle = <<>>

\* C20: once next() has returned None over a delegate that stays exhausted,
\* next() can be called again, returns None again and leaves lower, the queue
\* of case-ignorable characters, sigma_trail and prev_cased unchanged; no call
\* of next() changes tr_az.
C20_Step ==
  /\ ret = None =>
       /\ ret' = None
       /\ UNCHANGED <<lower, sigma_trailing_case_ignorables, sigma_trail, prev_cased>>
       /\ UNCHANGED <<pos, out>>
  /\ tr_az' = tr_az

C20_EndIsStable ==
  /\ [][C20_Step]_vars
  /\ [](ret = None => ENABLED NextEnd)

C20_Witness ==
  /\ Collected
  /\ tr_az /\ prev_cased
  /\ calls = 1
  /\ \E i \in 1..Len(out) : out[i] = DotlessI

====
